---- MODULE Spec2Model ----
(***************************************************************************)
(* Model of the two reconciliation programs of organization-automation:   *)
(*   invite_to_org.py   - invite a roster of people to an organization     *)
(*   manage_groups.py   - ensure one team per group, instructors as        *)
(*                        maintainers and students as members              *)
(* Strings are sequences of one-character strings, so that strip, lstrip,  *)
(* split, slugify and Python's string ordering are computed, not assumed.  *)
(*                                                                         *)
(* The remote organization is the state {members, pending, teams, roles}.  *)
(* What the model takes from it:                                           *)
(*   - the prechecks (gh installed, authenticated, org readable) passed;   *)
(*   - a query answers with the current remote state;                      *)
(*   - resolveUserId, createInvitation, createTeam and setTeamMembership   *)
(*     each succeed or fail, as the remote system chooses;                 *)
(*   - a created invitation is listed under the identifier it was asked    *)
(*     for, a created team under the slug slugify gives its name, with no  *)
(*     members, and a written role is the role read back;                  *)
(*   - nobody else changes the remote state.                               *)
(* One action is one iteration of a loop of main, with all its calls.      *)
(***************************************************************************)
EXTENDS Integers, Sequences, FiniteSets, TLC

\* ---------------------------------------------------------------- bounds
MaxRoster == 2
MaxRuns == 2
\* remote calls that may fail in one run
MaxFailures == 1

\* ------------------------------------------------------------ characters
Whitespace == {" "}
Alnum == {"a", "b", "m", "n"}
Chars == {" ", ",", "-", "@", "A", "B", "M", "N", "a", "b", "m", "n"}

\* code point of a character (Python compares strings by code point)
Ord(c) ==
  CASE c = " " -> 32 [] c = "," -> 44 [] c = "-" -> 45 [] c = "@" -> 64
    [] c = "A" -> 65 [] c = "B" -> 66 [] c = "M" -> 77 [] c = "N" -> 78
    [] c = "a" -> 97 [] c = "b" -> 98 [] c = "m" -> 109 [] c = "n" -> 110

LowerChar(c) ==
  CASE c = "A" -> "a" [] c = "B" -> "b" [] c = "M" -> "m" [] c = "N" -> "n"
    [] OTHER -> c

\* ------------------------------------------------------- string helpers
RECURSIVE LStripSet(_, _)
LStripSet(s, C) ==
  IF s = <<>> \/ Head(s) \notin C THEN s ELSE LStripSet(Tail(s), C)

RECURSIVE RStripSet(_, _)
RStripSet(s, C) ==
  IF s = <<>> \/ s[Len(s)] \notin C THEN s
  ELSE RStripSet(SubSeq(s, 1, Len(s) - 1), C)

\* str.strip()
strip(s) == RStripSet(LStripSet(s, Whitespace), Whitespace)

\* str.lstrip("@"): removes every leading "@"
lstrip(s) == LStripSet(s, {"@"})

\* str.lower()
lower(s) == [k \in DOMAIN s |-> LowerChar(s[k])]

\* "@" in u
HasAt(u) == \E k \in DOMAIN u : u[k] = "@"

\* str.split(",")
RECURSIVE split(_)
split(s) ==
  IF \A k \in DOMAIN s : s[k] # ","
  THEN <<s>>
  ELSE LET k == CHOOSE j \in DOMAIN s :
                  s[j] = "," /\ \A h \in 1..(j - 1) : s[h] # ","
       IN <<SubSeq(s, 1, k - 1)>> \o split(SubSeq(s, k + 1, Len(s)))

\* a < b for Python strings
RECURSIVE StrLess(_, _)
StrLess(a, b) ==
  IF b = <<>> THEN FALSE
  ELSE IF a = <<>> THEN TRUE
  ELSE IF Head(a) # Head(b) THEN Ord(Head(a)) < Ord(Head(b))
  ELSE StrLess(Tail(a), Tail(b))

\* sorted(...) over a set of distinct strings
RECURSIVE sorted(_)
sorted(S) ==
  IF S = {} THEN <<>>
  ELSE LET m == CHOOSE x \in S : \A y \in S \ {x} : StrLess(x, y)
       IN <<m>> \o sorted(S \ {m})

\* re.sub(r"[^a-z0-9]+", "-", s)
RECURSIVE SubNonAlnum(_)
SubNonAlnum(s) ==
  IF s = <<>> THEN <<>>
  ELSE IF Head(s) \in Alnum THEN <<Head(s)>> \o SubNonAlnum(Tail(s))
  ELSE <<"-">> \o SubNonAlnum(LStripSet(Tail(s), Chars \ Alnum))

\* re.sub(r"-+", "-", s)
RECURSIVE SubDashes(_)
SubDashes(s) ==
  IF s = <<>> THEN <<>>
  ELSE IF Head(s) = "-" THEN <<"-">> \o SubDashes(LStripSet(Tail(s), {"-"}))
  ELSE <<Head(s)>> \o SubDashes(Tail(s))

slugify(name) ==
  LET s1 == lower(strip(name))
      s2 == SubNonAlnum(s1)
      s3 == RStripSet(LStripSet(SubDashes(s2), {"-"}), {"-"})
  IN IF s3 = <<>> THEN <<"t", "e", "a", "m">> ELSE s3

\* ------------------------------------------------------------- loaders
\* invite_to_org.load_students: keeps a record when its raw username is
\* truthy, then normalises name and username
load_students_invite(data) ==
  LET kept == SelectSeq(data, LAMBDA it : it.username # <<>>)
  IN [k \in DOMAIN kept |->
        [name |-> strip(kept[k].name),
         username |-> lstrip(strip(kept[k].username))]]

\* manage_groups.load_students: normalises first, keeps a record when both
\* the normalised username and the normalised group are non-empty
load_students_groups(data) ==
  LET norm == [k \in DOMAIN data |->
                 [name |-> strip(data[k].name),
                  username |-> lstrip(strip(data[k].username)),
                  group |-> strip(data[k].group)]]
  IN SelectSeq(norm, LAMBDA r : r.username # <<>> /\ r.group # <<>>)

\* invite_to_org.main line 71: de-dupe by username, first occurrence wins
RECURSIVE DedupeFrom(_, _)
DedupeFrom(rows, seen) ==
  IF rows = <<>> THEN <<>>
  ELSE IF Head(rows).username \in seen THEN DedupeFrom(Tail(rows), seen)
  ELSE <<Head(rows)>> \o DedupeFrom(Tail(rows), seen \cup {Head(rows).username})

dedupe(rows) == DedupeFrom(rows, {})

\* manage_groups.main lines 81-83: group -> usernames, in roster order
build_groups(rows) ==
  [g \in {rows[k].group : k \in DOMAIN rows} |->
     LET mine == SelectSeq(rows, LAMBDA r : r.group = g)
     IN [k \in DOMAIN mine |-> mine[k].username]]

\* manage_groups.main line 84
parse_instructors(arg) ==
  LET kept == SelectSeq(split(arg), LAMBDA u : strip(u) # <<>>)
  IN [k \in DOMAIN kept |-> lstrip(strip(kept[k]))]

\* ---------------------------------------------------------------- inputs
\* rows a roster file may hold (name, username, group as written)
FileRows ==
  { [name |-> <<"N">>,      username |-> <<"a">>,                group |-> <<"a", " ", "b">>],
    [name |-> <<"M", " ">>, username |-> <<" ", "@", "@", "a">>, group |-> <<"B", " ">>],
    [name |-> <<>>,         username |-> <<"@">>,                group |-> <<"B">>],
    [name |-> <<>>,         username |-> <<"a", "@">>,           group |-> <<"a", " ", "b">>] }

RECURSIVE SeqsUpTo(_, _)
SeqsUpTo(S, n) ==
  IF n = 0 THEN {<<>>}
  ELSE LET shorter == SeqsUpTo(S, n - 1)
       IN shorter \cup {Append(q, x) : q \in shorter, x \in S}

Files == SeqsUpTo(FileRows, MaxRoster)

\* values of --instructors
InstrArgs == { <<>>, <<"b", ",", " ", "@", "a">> }

Roles == {"absent", "member", "maintainer"}

Range(q) == {q[k] : k \in DOMAIN q}

AllUsers ==
  {lstrip(strip(r.username)) : r \in FileRows}
    \cup UNION {Range(parse_instructors(a)) : a \in InstrArgs}

AllSlugs == {slugify(strip(r.group)) : r \in FileRows}

\* who may be an org member / hold a pending invitation / hold a team role
\* before the first run
MemberPool == {<<"a">>, <<"a", "@">>}
PendingPool == {<<"a">>}
RolePool == {<<"a">>}
\* teams that may exist before the first run
TeamPool == {<<"a", "-", "b">>}

\* ----------------------------------------------------------------- state
VARIABLES
  prog,        \* "invite" (invite_to_org.py) or "groups" (manage_groups.py)
  dryRun,      \* --dry-run
  file,        \* the roster file: a sequence of rows as written
  instructors, \* --instructors as written
  pc,          \* "start", "invite", "team", "instr", "students", "done", "exit1"
  students,    \* main's students
  groups,      \* main's groups: group name -> usernames
  order,       \* the group names in the order sorted(groups.items()) yields
  instr,       \* main's instr
  i,           \* main's loop index (person, or group)
  ui,          \* position in the inner loop over instr / members
  ok, sk, fail,
  exitCode,    \* -1 while the process runs
  members,     \* remote: org members
  pending,     \* remote: identifiers with a pending invitation
  teams,       \* remote: slugs of the existing teams
  roles,       \* remote: (slug, username) -> role
  calls,       \* the remote calls of this run, with their answers
  outcomes,    \* the branch each item of this run took
  run,         \* 1 for the first run, 2 for the re-run, ...
  prev,        \* how the previous run ended
  remote0      \* the remote state before the first run

inputs == <<prog, dryRun, file, instructors, remote0>>
locals == <<students, groups, order, instr>>
remote == <<members, pending, teams, roles>>
vars == <<prog, dryRun, file, instructors, pc, students, groups, order, instr,
          i, ui, ok, sk, fail, exitCode, members, pending, teams, roles,
          calls, outcomes, run, prev, remote0>>

Remote == [members |-> members, pending |-> pending, teams |-> teams, roles |-> roles]

NoRoles == [p \in AllSlugs \X AllUsers |-> "absent"]

\* remote states before the first run: every existing team holds the same
\* role for each user of RolePool
InitialRoles(ts, role0) ==
  [p \in AllSlugs \X AllUsers |->
     IF p[1] \in ts /\ p[2] \in RolePool THEN role0[p[2]] ELSE "absent"]

Init ==
  /\ prog \in {"invite", "groups"}
  /\ dryRun \in BOOLEAN
  /\ file \in Files
  /\ IF prog = "invite"
     THEN /\ instructors = <<>>
          /\ members \in SUBSET MemberPool
          /\ pending \in SUBSET PendingPool
          /\ teams = {}
          /\ roles = NoRoles
     ELSE /\ instructors \in InstrArgs
          /\ members = {}
          /\ pending = {}
          /\ teams \in SUBSET TeamPool
          /\ \E role0 \in [RolePool -> Roles] : roles = InitialRoles(teams, role0)
  /\ pc = "start"
  /\ students = <<>> /\ groups = <<>> /\ order = <<>> /\ instr = <<>>
  /\ i = 0 /\ ui = 0
  /\ ok = 0 /\ sk = 0 /\ fail = 0
  /\ exitCode = -1
  /\ calls = <<>> /\ outcomes = <<>>
  /\ run = 1
  /\ prev = [how |-> "none", failed |-> FALSE, wrote |-> FALSE]
  /\ remote0 = Remote

\* ------------------------------------------------------ remote answers
Call(op, team, user, role, res) ==
  [op |-> op, team |-> team, user |-> user, role |-> role, res |-> res]

Bool(b) == IF b THEN "true" ELSE "false"
Status(b) == IF b THEN "ok" ELSE "fail"

\* is_member: GET orgs/{org}/memberships/{username} succeeded
is_member(u) == u \in members

\* a has_pending that reads no invitation list
has_pending_blind(u) == FALSE

\* has_pending: an invitation whose login or email equals the identifier
has_pending(u) == u \in pending

\* team_exists: GET orgs/{org}/teams/{slug} succeeded
team_exists(slug) == slug \in teams

\* team_membership: "member" or "maintainer" if in the team, otherwise None
team_membership(slug, u) == roles[<<slug, u>>]

FailedCall(c) == c.res = "fail"

\* the answers the remote system may give to a call that can fail
CallResults ==
  IF Cardinality({k \in DOMAIN calls : FailedCall(calls[k])}) < MaxFailures
  THEN BOOLEAN ELSE {TRUE}

MutatingOps == {"createInvitation", "createTeam", "setTeamMembership"}

Outcome(kind, who, branch) == [kind |-> kind, who |-> who, branch |-> branch]

\* --------------------------------------------------- decisions of main
\* a line 78 that skips every username without asking the organization
skips_every_username(u) == ~HasAt(u)

\* invite_to_org.main line 78
skips_as_member(u) == ~HasAt(u) /\ is_member(u)

\* a team check that forgets the dry-run branch
creates_team_in_dry_run(exists) == ~exists

\* manage_groups.main lines 93-99: create_team is called
creates_team(exists) == ~exists /\ ~dryRun

\* a create_team that reports the failure and returns
create_team_never_exits(cp_ok) == FALSE

\* manage_groups.create_team lines 28-29: sys.exit(1)
create_team_exits(cp_ok) == ~cp_ok

\* an instructor loop that accepts any role already held
instr_satisfied_by_member(role_now) == role_now \in {"member", "maintainer"}

\* manage_groups.main line 105
instr_satisfied(role_now) == role_now = "maintainer"

\* a student loop that accepts only role member
student_satisfied_only_member(role_now) == role_now = "member"

\* manage_groups.main line 123
student_satisfied(role_now) == role_now \in {"member", "maintainer"}

\* manage_groups.main lines 111, 117 and line 129: the role written
instr_role == "maintainer"
student_role == "member"

Goto(p, gi, k, code) == pc' = p /\ i' = gi /\ ui' = k /\ exitCode' = code

\* ------------------------------------------------------- invite_to_org
InviteLoad ==
  /\ prog = "invite" /\ pc = "start"
  /\ LET rows == load_students_invite(file)
     IN IF rows = <<>>
        THEN students' = <<>> /\ Goto("exit1", 0, 0, 1)
        ELSE students' = dedupe(rows) /\ Goto("invite", 1, 0, exitCode)
  /\ UNCHANGED <<inputs, groups, order, instr, ok, sk, fail, remote, calls,
                 outcomes, run, prev>>

InviteStep ==
  /\ prog = "invite" /\ pc = "invite"
  /\ \E resolved \in CallResults, invited \in CallResults :
       LET u == students[i].username
           qm == IF HasAt(u) THEN <<>>
                 ELSE <<Call("queryOrgMembership", <<>>, u, "", Bool(is_member(u)))>>
           qp == <<Call("queryPendingInvitation", <<>>, u, "", Bool(has_pending(u)))>>
           rs == <<Call("resolveUserId", <<>>, u, "", Status(resolved))>>
           ci == <<Call("createInvitation", <<>>, u, "direct_member", Status(invited))>>
           branch == IF skips_as_member(u) THEN "member"
                     ELSE IF has_pending(u) THEN "pending"
                     ELSE IF dryRun THEN "dry"
                     ELSE IF ~resolved THEN "unresolved"
                     ELSE IF invited THEN "invited"
                     ELSE "refused"
       IN /\ calls' = calls \o
               (CASE branch = "member" -> qm
                  [] branch \in {"pending", "dry"} -> qm \o qp
                  [] branch = "unresolved" -> qm \o qp \o rs
                  [] OTHER -> qm \o qp \o rs \o ci)
          /\ pending' = IF branch = "invited" THEN pending \cup {u} ELSE pending
          /\ sk' = IF branch \in {"member", "pending"} THEN sk + 1 ELSE sk
          /\ ok' = IF branch \in {"dry", "invited"} THEN ok + 1 ELSE ok
          /\ fail' = IF branch \in {"unresolved", "refused"} THEN fail + 1 ELSE fail
          /\ outcomes' = Append(outcomes, Outcome("person", u,
               CASE branch \in {"member", "pending"} -> "skip"
                 [] branch = "dry" -> "dry"
                 [] branch = "invited" -> "ok"
                 [] OTHER -> "fail"))
  /\ IF i < Len(students)
     THEN Goto("invite", i + 1, 0, exitCode)
     ELSE Goto("done", i, 0, 0)
  /\ UNCHANGED <<inputs, locals, members, teams, roles, run, prev>>

\* ------------------------------------------------------- manage_groups
GroupsLoad ==
  /\ prog = "groups" /\ pc = "start"
  /\ LET rows == load_students_groups(file)
     IN IF rows = <<>>
        THEN /\ students' = <<>> /\ groups' = <<>> /\ order' = <<>> /\ instr' = <<>>
             /\ Goto("exit1", 0, 0, 1)
        ELSE /\ students' = rows
             /\ groups' = build_groups(rows)
             /\ order' = sorted(DOMAIN build_groups(rows))
             /\ instr' = parse_instructors(instructors)
             /\ Goto("team", 1, 0, exitCode)
  /\ UNCHANGED <<inputs, ok, sk, fail, remote, calls, outcomes, run, prev>>

\* position after the check/create of team order[i]
AfterTeam ==
  IF Len(instr) > 0 THEN Goto("instr", i, 1, exitCode)
  ELSE Goto("students", i, 1, exitCode)

AfterInstr ==
  IF ui < Len(instr) THEN Goto("instr", i, ui + 1, exitCode)
  ELSE Goto("students", i, 1, exitCode)

AfterStudent ==
  IF ui < Len(groups[order[i]]) THEN Goto("students", i, ui + 1, exitCode)
  ELSE IF i < Len(order) THEN Goto("team", i + 1, 0, exitCode)
  ELSE Goto("done", i, 0, 0)

TeamStep ==
  /\ prog = "groups" /\ pc = "team"
  /\ \E cp_ok \in CallResults :
       LET slug == slugify(order[i])
           exists == team_exists(slug)
           q == Call("queryTeamExists", slug, <<>>, "", Bool(exists))
           c == Call("createTeam", slug, <<>>, "", Status(cp_ok))
       IN IF creates_team(exists)
          THEN /\ calls' = calls \o <<q, c>>
               /\ teams' = IF cp_ok THEN teams \cup {slug} ELSE teams
               /\ outcomes' = Append(outcomes, Outcome("team", slug, Status(cp_ok)))
               /\ IF create_team_exits(cp_ok)
                  THEN Goto("exit1", i, 0, 1)
                  ELSE AfterTeam
          ELSE /\ calls' = Append(calls, q)
               /\ teams' = teams
               /\ outcomes' = Append(outcomes,
                    Outcome("team", slug, IF exists THEN "skip" ELSE "dry"))
               /\ AfterTeam
  /\ UNCHANGED <<inputs, locals, ok, sk, fail, members, pending, roles, run, prev>>

\* one iteration of either membership loop: query, then skip, log the
\* intent (dry run) or add_to_team
Ensure(kind, slug, u, satisfied, role, cp_ok) ==
  LET role_now == team_membership(slug, u)
      q == Call("queryTeamMembershipRole", slug, u, "", role_now)
      written == cp_ok /\ slug \in teams
      w == Call("setTeamMembership", slug, u, role, Status(written))
  IN IF satisfied
     THEN /\ calls' = Append(calls, q)
          /\ roles' = roles
          /\ outcomes' = Append(outcomes, Outcome(kind, <<slug, u>>, "skip"))
     ELSE IF dryRun
     THEN /\ calls' = Append(calls, q)
          /\ roles' = roles
          /\ outcomes' = Append(outcomes, Outcome(kind, <<slug, u>>, "dry"))
     ELSE /\ calls' = calls \o <<q, w>>
          /\ roles' = IF written THEN [roles EXCEPT ![<<slug, u>>] = role] ELSE roles
          /\ outcomes' = Append(outcomes, Outcome(kind, <<slug, u>>, Status(written)))

InstrStep ==
  /\ prog = "groups" /\ pc = "instr"
  /\ \E cp_ok \in CallResults :
       LET slug == slugify(order[i])
           u == instr[ui]
       IN Ensure("instructor", slug, u,
                 instr_satisfied(team_membership(slug, u)), instr_role, cp_ok)
  /\ AfterInstr
  /\ UNCHANGED <<inputs, locals, ok, sk, fail, members, pending, teams, run, prev>>

StudentStep ==
  /\ prog = "groups" /\ pc = "students"
  /\ \E cp_ok \in CallResults :
       LET slug == slugify(order[i])
           u == groups[order[i]][ui]
       IN Ensure("student", slug, u,
                 student_satisfied(team_membership(slug, u)), student_role, cp_ok)
  /\ AfterStudent
  /\ UNCHANGED <<inputs, locals, ok, sk, fail, members, pending, teams, run, prev>>

\* ------------------------------------------------------------- re-runs
Wrote(c) == c.op \in MutatingOps /\ c.res = "ok"

\* the operator starts the program again with the same arguments: after it
\* finished, after it aborted, or after killing it between two remote calls
Restart ==
  /\ run < MaxRuns
  /\ pc # "start"
  /\ run' = run + 1
  /\ prev' = [how |-> IF pc = "done" THEN "completed" ELSE "interrupted",
              failed |-> \E k \in DOMAIN calls : FailedCall(calls[k]),
              wrote |-> \E k \in DOMAIN calls : Wrote(calls[k])]
  /\ pc' = "start"
  /\ students' = <<>> /\ groups' = <<>> /\ order' = <<>> /\ instr' = <<>>
  /\ i' = 0 /\ ui' = 0
  /\ ok' = 0 /\ sk' = 0 /\ fail' = 0
  /\ exitCode' = -1
  /\ calls' = <<>> /\ outcomes' = <<>>
  /\ UNCHANGED <<inputs, remote>>

Next ==
  \/ InviteLoad
  \/ InviteStep
  \/ GroupsLoad
  \/ TeamStep
  \/ InstrStep
  \/ StudentStep
  \/ Restart

Spec == Init /\ [][Next]_vars

\* ======================================================================
\* Properties
\* ======================================================================
IsWrite(c) == c.op \in MutatingOps
SamePair(c, d) == c.team = d.team /\ c.user = d.user
NoFailedCall == \A k \in DOMAIN calls : ~FailedCall(calls[k])
NoMutation == \A k \in DOMAIN calls : ~IsWrite(calls[k])
AllSkip == \A k \in DOMAIN outcomes : outcomes[k].branch = "skip"
Terminated == pc \in {"done", "exit1"}

ExpectedInvite ==
  LET persons == {r.username : r \in Range(dedupe(load_students_invite(file)))}
      due == {u \in persons : ~(~HasAt(u) /\ u \in remote0.members)}
  IN [remote0 EXCEPT !.pending = IF dryRun THEN @ ELSE @ \cup due]

ExpectedGroups ==
  LET gs == build_groups(load_students_groups(file))
      ins == Range(parse_instructors(instructors))
      slugs == {slugify(g) : g \in DOMAIN gs}
      studentsOf(s) == UNION {Range(gs[g]) : g \in {h \in DOMAIN gs : slugify(h) = s}}
  IN IF dryRun THEN remote0
     ELSE [remote0 EXCEPT
             !.teams = @ \cup slugs,
             !.roles = [p \in DOMAIN @ |->
                          IF p[1] \notin slugs THEN @[p]
                          ELSE IF p[2] \in ins THEN "maintainer"
                          ELSE IF p[2] \in studentsOf(p[1]) /\ @[p] = "absent"
                               THEN "member"
                          ELSE @[p]]]

Expected == IF prog = "invite" THEN ExpectedInvite ELSE ExpectedGroups

C3_NoWriteOverMaintainer ==
  \A j \in DOMAIN calls :
    calls[j].op = "setTeamMembership" =>
      /\ j > 1
      /\ calls[j - 1].op = "queryTeamMembershipRole"
      /\ SamePair(calls[j - 1], calls[j])
      /\ \A h \in 1..(j - 1) :
           ~(/\ calls[h].op = "queryTeamMembershipRole"
             /\ SamePair(calls[h], calls[j])
             /\ calls[h].res = "maintainer")

C3_Witness ==
  /\ prog = "groups" /\ ~dryRun /\ pc = "done"
  /\ \E k \in DOMAIN outcomes :
       /\ outcomes[k].kind = "student"
       /\ outcomes[k].branch = "skip"
       /\ outcomes[k].who[2] \notin Range(instr)
       /\ roles[outcomes[k].who] = "maintainer"
  /\ \E k \in DOMAIN calls : calls[k].op = "setTeamMembership"

C5_CreateTeamFailureIsFatal ==
  \A k \in DOMAIN calls :
    (calls[k].op = "createTeam" /\ calls[k].res = "fail") =>
      (k = Len(calls) /\ pc = "exit1" /\ exitCode > 0)

C5_Witness ==
  /\ pc = "exit1" /\ calls # <<>>
  /\ calls[Len(calls)].op = "createTeam"
  /\ i < Len(order)
  /\ instr # <<>>

\* C6 as stated: after a failed per-item call the batch goes on, the later
\* items are processed as if the call had succeeded (so no item is written
\* again after its write failed), and the run ends with exit code 0.
C6_AsStated ==
  /\ \A h \in DOMAIN calls : \A j \in DOMAIN calls :
       ~(/\ h < j
         /\ calls[h].op \in {"resolveUserId", "createInvitation", "setTeamMembership"}
         /\ FailedCall(calls[h])
         /\ IsWrite(calls[j])
         /\ SamePair(calls[h], calls[j]))
  /\ pc = "exit1" =>
       (students = <<>> \/ calls[Len(calls)].op = "createTeam")
  /\ pc = "done" => exitCode = 0

HasNoDuplicate(q) == \A h \in DOMAIN q : \A k \in DOMAIN q : q[h] = q[k] => h = k

\* the rows of q whose username occurs in no earlier row
RECURSIVE FirstOccurrences(_, _)
FirstOccurrences(q, k) ==
  IF k > Len(q) THEN <<>>
  ELSE (IF \E h \in 1..(k - 1) : q[h].username = q[k].username
        THEN <<>> ELSE <<q[k]>>) \o FirstOccurrences(q, k + 1)

\* C7 as stated: the persons processed hold each username once, in order of
\* first occurrence and with the first occurrence's name: main's students
\* in the invitation workflow, every group's member list in the team
\* workflow.
C7_AsStated ==
  (pc \notin {"start", "exit1"}) =>
    IF prog = "invite"
    THEN students = FirstOccurrences(load_students_invite(file), 1)
    ELSE \A g \in DOMAIN groups : HasNoDuplicate(groups[g])

\* the username as the specification normalises it: trimmed, one leading
\* "@" removed
TrimOneSigil(s) ==
  LET t == strip(s)
  IN IF t # <<>> /\ Head(t) = "@" THEN Tail(t) ELSE t

\* C8 as stated: every record a loader returns has a non-empty username,
\* which is a file row's username trimmed with one leading "@" removed.
C8_AsStated ==
  (pc # "start") =>
    \A k \in DOMAIN students :
      /\ students[k].username # <<>>
      /\ \E h \in DOMAIN file : students[k].username = TrimOneSigil(file[h].username)

\* C9 as stated: within a team no instructor item comes after a student
\* item, and every setTeamMembership call for a username of the instructor
\* list carries role maintainer.
C9_AsStated ==
  /\ \A h \in DOMAIN outcomes : \A j \in DOMAIN outcomes :
       ~(/\ h < j
         /\ outcomes[h].kind = "student"
         /\ outcomes[j].kind = "instructor"
         /\ outcomes[h].who[1] = outcomes[j].who[1])
  /\ \A k \in DOMAIN calls :
       (calls[k].op = "setTeamMembership" /\ calls[k].user \in Range(instr))
         => calls[k].role = "maintainer"

\* one iteration of the invitation loop, seen from outside
C10_Step ==
  (prog = "invite" /\ pc = "invite" /\ run' = run) =>
    LET u == students[i].username
        new == SubSeq(calls', Len(calls) + 1, Len(calls'))
        inOrder == (IF HasAt(u) THEN <<>> ELSE <<"queryOrgMembership">>)
                     \o <<"queryPendingInvitation", "resolveUserId", "createInvitation">>
        resolvedId == \E k \in DOMAIN new :
                        new[k].op = "resolveUserId" /\ new[k].res = "ok"
        invites == \E k \in DOMAIN new : new[k].op = "createInvitation"
        invited == \E k \in DOMAIN new :
                     new[k].op = "createInvitation" /\ new[k].res = "ok"
        asks(op) == \E k \in DOMAIN new : new[k].op = op
        knownMember == ~HasAt(u) /\ u \in members
        toInvite == ~knownMember /\ u \notin pending
    IN /\ i = Len(outcomes) + 1
       /\ Len(new) \in 1..Len(inOrder)
       /\ \A k \in DOMAIN new : new[k].op = inOrder[k] /\ new[k].user = u
       /\ asks("queryPendingInvitation") <=> ~knownMember
       /\ asks("resolveUserId") <=> (toInvite /\ ~dryRun)
       /\ invites <=> (toInvite /\ ~dryRun /\ resolvedId)
       /\ sk' = sk + 1 <=> ~toInvite
       /\ ok' = ok + 1 <=> (toInvite /\ (dryRun \/ invited))
       /\ pending' = IF invited THEN pending \cup {u} ELSE pending
       /\ outcomes' = Append(outcomes, outcomes'[Len(outcomes')])
       /\ outcomes'[Len(outcomes')].who = u
       /\ ok' + sk' + fail' = ok + sk + fail + 1
       /\ ok' >= ok /\ sk' >= sk /\ fail' >= fail
       /\ pc' = "done" =>
            /\ students = dedupe(load_students_invite(file))
            /\ ok' + sk' + fail' = Len(students)

\* C10: each iteration of the invitation loop handles the next person of
\* the deduplicated roster, asks org membership (usernames only), pending
\* invitation, user id in that order, calls createInvitation exactly when
\* the person is not a member read by username, has no pending invitation,
\* the run is not a dry run and the id resolved, and adds one to exactly
\* one of ok, skip, fail; at the end their sum is the number of persons.
C10_InvitationDecision == [][C10_Step]_vars

C10_Witness ==
  /\ prog = "invite" /\ ~dryRun /\ pc = "done"
  /\ ok = 1 /\ sk = 1
  /\ \E k \in DOMAIN calls : calls[k].op = "createInvitation" /\ calls[k].res = "ok"

====
